---- MODULE Spec2Model ----
(***************************************************************************)
(* Model of the TypeDoc/themes repository:                                 *)
(*   - the Gesture / SwipeGesture value objects of src/default, and        *)
(*   - the two Gruntfiles that drive the documentation build.              *)
(* SpecGesture explores the value objects, SpecBuild the build pipeline.   *)
(***************************************************************************)
EXTENDS Integers, Sequences, FiniteSets, TLC

VARIABLES
    heap,        \* the Gesture / SwipeGesture objects allocated so far (ref = index)
    lastOp,      \* the operation performed last: [name, a, b]
    ret,         \* the value it returned (a JS value)
    retStr,      \* the string toString() returned, as its concatenated pieces
    invalidRefs, \* the references handed out by Gesture.invalid() so far
    nWrites,     \* number of field writes performed by the driver
    gruntfile,   \* which Gruntfile is loaded: "plugin" (grunt-typedoc) or "handwritten"
    cliTask,     \* the task given on the command line
    queue,       \* grunt's task queue
    running,     \* the task being run, or NoTask
    themeIdx,    \* position of the forEach loop of the hand-written typedoc task
    status,      \* "running", "done" or "aborted"
    startedLog,  \* concrete tasks started, in order
    finishedLog, \* concrete tasks finished successfully, in order
    failedTask,  \* the task whose failure aborted the run, or NoTask
    invocations, \* the documentation generator invocations issued, in order
    fs,          \* the files on disk (absolute paths)
    readDirs,    \* per invocation, the directories the generator was told to read
    written,     \* per invocation, the files the generator wrote
    published,   \* the files pushed by gh-pages (paths relative to its base)
    runs,        \* number of grunt runs started so far
    prevDist     \* dist/ as the last successful earlier run left it ({} when there was none)

gvars == <<heap, lastOp, ret, retStr, invalidRefs, nWrites>>
bvars == <<gruntfile, cliTask, queue, running, themeIdx, status, startedLog,
           finishedLog, failedTask, invocations, fs, readDirs, written, published,
           runs, prevDist>>
vars == <<heap, lastOp, ret, retStr, invalidRefs, nWrites,
          gruntfile, cliTask, queue, running, themeIdx, status, startedLog,
          finishedLog, failedTask, invocations, fs, readDirs, written, published,
          runs, prevDist>>

----------------------------------------------------------------------------
(* Bounds *)
\* constructions plus field writes explored
MaxHeapOps == 4
\* grunt runs in a row
MaxRuns == 2

----------------------------------------------------------------------------
(* JavaScript values: undefined, numbers, booleans, object references *)
Undef == [k |-> "undefined", n |-> 0]
Num(n) == [k |-> "number", n |-> n]
Bool(b) == [k |-> "boolean", n |-> IF b THEN 1 ELSE 0]
Ref(r) == [k |-> "object", n |-> r]

\* ToBoolean: undefined and 0 are falsy (every other value used here is truthy)
Truthy(v) == ~(v.k = "undefined" \/ (v.k = "number" /\ v.n = 0)
               \/ (v.k = "boolean" /\ v.n = 0))

\* the == operator on values of the same kind, and undefined against anything
LooseEq(a, b) ==
    IF a.k = "undefined" \/ b.k = "undefined"
    THEN a.k = "undefined" /\ b.k = "undefined"
    ELSE a.k = b.k /\ a.n = b.n

\* string concatenation's ToString of a value
DigitStr(d) == CASE d = 0 -> "0" [] d = 1 -> "1" [] d = 2 -> "2" [] d = 3 -> "3"
                 [] d = 4 -> "4" [] d = 5 -> "5" [] d = 6 -> "6" [] d = 7 -> "7"
                 [] d = 8 -> "8" [] OTHER -> "9"
ToStr(v) == CASE v.k = "undefined" -> "undefined"
              [] v.k = "number" -> DigitStr(v.n)
              [] v.k = "boolean" -> (IF v.n = 1 THEN "true" ELSE "false")
              [] OTHER -> "[object Object]"

----------------------------------------------------------------------------
(* Gesture.ts *)
STATE_INVALID == 0
STATE_START == 1
STATE_UPDATE == 2
STATE_STOP == 3
State == {STATE_INVALID, STATE_START, STATE_UPDATE, STATE_STOP}

TYPE_INVALID == 4
TYPE_SWIPE == 5
TYPE_CIRCLE == 6
TYPE_SCREEN_TAP == 7
TYPE_KEY_TAP == 8
Type == {TYPE_INVALID, TYPE_SWIPE, TYPE_CIRCLE, TYPE_SCREEN_TAP, TYPE_KEY_TAP}

\* the fields declared by class Gesture and by class SwipeGesture
GestureFields == {"duration", "durationSeconds", "frame", "hands", "id",
                  "pointables", "state", "type"}
SwipeFields == {"direction", "pointable", "position", "speed", "startPosition"}

\* new Gesture(): only the two initialised array fields exist, the rest reads undefined
GestureCtor ==
    [cls |-> "Gesture",
     duration |-> Undef, durationSeconds |-> Undef, frame |-> Undef,
     hands |-> <<>>, id |-> Undef, pointables |-> <<>>,
     state |-> Undef, type |-> Undef,
     direction |-> Undef, pointable |-> Undef, position |-> Undef,
     speed |-> Undef, startPosition |-> Undef]

\* SwipeGesture.classType
classType == TYPE_SWIPE

\* new SwipeGesture(): super() and nothing else
SwipeGestureCtor == [GestureCtor EXCEPT !.cls = "SwipeGesture"]

isEqualTo_andDuration(this, other) ==
    LooseEq(this.id, other.id) /\ LooseEq(this.duration, other.duration)

\* this.id == other.id
isEqualTo(this, other) == LooseEq(this.id, other.id)

\* if( !this.durationSeconds ) return false; return true;
isValid(this) == IF ~Truthy(this.durationSeconds) THEN FALSE ELSE TRUE

invalid_cached(h) ==
    IF h = <<>> THEN [heap |-> <<GestureCtor>>, ref |-> 1] ELSE [heap |-> h, ref |-> 1]

invalid_reset(h) ==
    IF h = <<>> THEN [heap |-> <<GestureCtor>>, ref |-> 1]
    ELSE [heap |-> [h EXCEPT ![1] = GestureCtor], ref |-> 1]

\* Gesture.invalid(): return new Gesture(); the heap after the call and the reference returned
invalid(h) == [heap |-> Append(h, GestureCtor), ref |-> Len(h) + 1]

\* "[Gesture id:" + this.id + " duration:" + this.duration + " type:" + this.type + "]"
toString(this) == <<"[Gesture id:", ToStr(this.id), " duration:", ToStr(this.duration),
                    " type:", ToStr(this.type), "]">>

----------------------------------------------------------------------------
(* The values the external driver writes into the public fields *)
FieldValues(f) ==
    CASE f = "id" -> {Num(7), Num(8)}
      [] f = "duration" -> {Num(1)}
      [] f = "durationSeconds" -> {Num(0), Num(1)}
      [] f = "state" -> {Num(STATE_START)}
      [] f = "type" -> {Num(TYPE_SWIPE)}
      [] f = "frame" -> {Ref(1)}
      [] f = "hands" -> {<<Ref(1)>>}
      [] f = "pointables" -> {<<Ref(1)>>}
      [] f = "speed" -> {Num(1)}
      [] OTHER -> {Ref(1)}

WritableFields(o) == IF o.cls = "SwipeGesture" THEN GestureFields \cup SwipeFields
                     ELSE GestureFields

NoOp == [name |-> "none", a |-> 0, b |-> 0]

\* no instance constructed yet
NoGestures ==
    /\ heap = <<>>
    /\ lastOp = NoOp
    /\ ret = Undef
    /\ retStr = <<>>
    /\ invalidRefs = {}
    /\ nWrites = 0

\* new Gesture()
NewGesture ==
    /\ Len(heap) + nWrites < MaxHeapOps
    /\ heap' = Append(heap, GestureCtor)
    /\ lastOp' = [name |-> "new Gesture", a |-> 0, b |-> 0]
    /\ ret' = Ref(Len(heap) + 1)
    /\ retStr' = <<>>
    /\ UNCHANGED <<invalidRefs, nWrites>>

\* new SwipeGesture()
NewSwipeGesture ==
    /\ Len(heap) + nWrites < MaxHeapOps
    /\ heap' = Append(heap, SwipeGestureCtor)
    /\ lastOp' = [name |-> "new SwipeGesture", a |-> 0, b |-> 0]
    /\ ret' = Ref(Len(heap) + 1)
    /\ retStr' = <<>>
    /\ UNCHANGED <<invalidRefs, nWrites>>

\* the driver (or any caller) assigns a public field
WriteField ==
    /\ Len(heap) + nWrites < MaxHeapOps
    /\ \E r \in DOMAIN heap : \E f \in WritableFields(heap[r]) : \E v \in FieldValues(f) :
          heap' = [heap EXCEPT ![r][f] = v]
    /\ lastOp' = [name |-> "write", a |-> 0, b |-> 0]
    /\ ret' = Undef
    /\ nWrites' = nWrites + 1
    /\ retStr' = <<>>
    /\ UNCHANGED invalidRefs

\* g1.isEqualTo(g2)
CallIsEqualTo ==
    /\ \E r1 \in DOMAIN heap, r2 \in DOMAIN heap :
          /\ ret' = Bool(isEqualTo(heap[r1], heap[r2]))
          /\ lastOp' = [name |-> "isEqualTo", a |-> r1, b |-> r2]
    /\ retStr' = <<>>
    /\ UNCHANGED <<heap, invalidRefs, nWrites>>

\* g.isValid()
CallIsValid ==
    /\ \E r \in DOMAIN heap :
          /\ ret' = Bool(isValid(heap[r]))
          /\ lastOp' = [name |-> "isValid", a |-> r, b |-> 0]
    /\ retStr' = <<>>
    /\ UNCHANGED <<heap, invalidRefs, nWrites>>

\* g.toString()
CallToString ==
    /\ \E r \in DOMAIN heap :
          /\ retStr' = toString(heap[r])
          /\ lastOp' = [name |-> "toString", a |-> r, b |-> 0]
    /\ ret' = Undef
    /\ UNCHANGED <<heap, invalidRefs, nWrites>>

\* Gesture.invalid()
CallInvalid ==
    /\ Len(heap) + nWrites < MaxHeapOps
    /\ heap' = invalid(heap).heap
    /\ ret' = Ref(invalid(heap).ref)
    /\ invalidRefs' = invalidRefs \cup {invalid(heap).ref}
    /\ lastOp' = [name |-> "invalid", a |-> 0, b |-> 0]
    /\ retStr' = <<>>
    /\ UNCHANGED nWrites

----------------------------------------------------------------------------
(* Paths: a path string is the sequence of its '/'-separated segments; a     *)
(* trailing '/' is a final empty segment; absolute paths start with "/".     *)
Cwd == <<"/", "repo">>

IsAbsolute(p) == p # <<>> /\ p[1] = "/"

RECURSIVE Normalize(_)
\* drops the "." and empty segments
Normalize(p) ==
    IF p = <<>> THEN <<>>
    ELSE IF Head(p) \in {".", ""} THEN Normalize(Tail(p))
    ELSE <<Head(p)>> \o Normalize(Tail(p))

\* Path.resolve(p), also what every tool does with a relative path it is given
PathResolve(p) == IF IsAbsolute(p) THEN <<"/">> \o Normalize(Tail(p)) ELSE Cwd \o Normalize(p)

\* 'dir/' + name
PathConcat(p, name) == [p EXCEPT ![Len(p)] = name]

\* the generator's reading of a --target option value
ScriptTarget(v) == CASE v \in {"es3", "ScriptTarget.ES3"} -> 0
                     [] v \in {"es5", "ScriptTarget.ES5"} -> 1
                     [] OTHER -> -1

IsPrefix(p, q) == Len(p) <= Len(q) /\ SubSeq(q, 1, Len(p)) = p

\* q lies inside, or coincides with, the tree rooted at p
Inside(q, p) == IsPrefix(PathResolve(p), PathResolve(q))

----------------------------------------------------------------------------
(* The Gruntfiles. "plugin" is the one that loads grunt-typedoc             *)
(* (src/unnamed/part_001), "handwritten" the one that registers its own     *)
(* 'typedoc' task (src/unnamed/part_000).                                   *)
Gruntfiles == {"plugin", "handwritten"}

Unset == "unset"

CleanConfig_defaultOnly == [dist |-> <<"dist", "default", "">>]

\* clean: { dist: ['dist/'] }
CleanConfig == [dist |-> <<"dist", "">>]

CopyConfig_intoDefault == [src |-> <<"README.md", "LICENCE*">>, dest |-> <<"dist", "default", "">>]

\* copy: { rootfiles: { src: ['README.md', 'LICENCE*'], dest: 'dist/' } }
CopyConfig == [src |-> <<"README.md", "LICENCE*">>, dest |-> <<"dist", "">>]

\* typedoc: { default: {...}, minimal: {...} }   (typedocc in the hand-written Gruntfile)
TypedocConfig ==
    [default |-> [module |-> "commonjs", out |-> <<"dist", "default">>,
                  name |-> "Leap Motion", target |-> "es5", theme |-> "default",
                  src |-> <<"src", "default">>],
     minimal |-> [module |-> "commonjs", out |-> <<"dist", "minimal">>,
                  name |-> "FS Extra", target |-> "es5", theme |-> "minimal",
                  src |-> <<"src", "minimal">>]]

\* 'gh-pages': { dist: { options: { base: 'dist/' }, src: '**/*' } }
GhPagesConfig == [base |-> <<"dist", "">>, src |-> "**/*"]

\* the order of the targets of the typedoc configuration, and of the forEach array
Themes == <<"default", "minimal">>

\* grunt-typedoc: one generator invocation per target, from its options and src
PluginInvocation(target) ==
    [src |-> TypedocConfig[target].src, out |-> TypedocConfig[target].out,
     name |-> TypedocConfig[target].name, module |-> TypedocConfig[target].module,
     target |-> TypedocConfig[target].target, theme |-> TypedocConfig[target].theme,
     mode |-> Unset]

HandwrittenInvocation_sameOut(theme) ==
    [src |-> PathResolve(PathConcat(<<".", "src", "">>, theme)),
     out |-> PathResolve(<<".", "dist", "">>),
     name |-> IF theme = "default" THEN "Leap Motion" ELSE "FS Extra",
     module |-> Unset, target |-> "ScriptTarget.ES5", theme |-> theme, mode |-> "File"]

HandwrittenInvocation_swappedNames(theme) ==
    [src |-> PathResolve(PathConcat(<<".", "src", "">>, theme)),
     out |-> PathResolve(PathConcat(<<".", "dist", "">>, theme)),
     name |-> IF theme = "default" THEN "FS Extra" ELSE "Leap Motion",
     module |-> Unset, target |-> "ScriptTarget.ES5", theme |-> theme, mode |-> "File"]

\* the body of the forEach callback of the hand-written 'typedoc' task
HandwrittenInvocation(theme) ==
    [src |-> PathResolve(PathConcat(<<".", "src", "">>, theme)),
     out |-> PathResolve(PathConcat(<<".", "dist", "">>, theme)),
     name |-> IF theme = "default" THEN "Leap Motion" ELSE "FS Extra",
     module |-> Unset,
     target |-> "ScriptTarget.ES5",
     theme |-> theme,
     mode |-> "File"]

Invocation(gf, theme) == IF gf = "plugin" THEN PluginInvocation(theme)
                         ELSE HandwrittenInvocation(theme)

\* a task of the queue: its name and target ("" when none was given)
T(name, target) == [task |-> name, target |-> target]
NoTask == T("", "")

BuildTasks_reordered == <<T("typedoc", ""), T("clean", ""), T("copy", "")>>

\* grunt.registerTask('build', ...): clean, typedoc, copy
BuildTasks == <<T("clean", ""), T("typedoc", ""), T("copy", "")>>

\* grunt.registerTask('publish', ...): build, gh-pages
PublishTasks == <<T("build", ""), T("gh-pages", "")>>

\* grunt.registerTask('default', ['build'])
DefaultTasks == <<T("build", "")>>

AliasNames == {"build", "publish", "default"}
AliasTasks(name) == CASE name = "build" -> BuildTasks
                      [] name = "publish" -> PublishTasks
                      [] OTHER -> DefaultTasks

\* the targets of a multi task, in configuration order; the hand-written
\* 'typedoc' is a plain function task and has none
MultiTargets(gf, name) ==
    CASE name = "clean" -> <<"dist">>
      [] name = "copy" -> <<"rootfiles">>
      [] name = "gh-pages" -> <<"dist">>
      [] name = "typedoc" /\ gf = "plugin" -> Themes
      [] OTHER -> <<>>

IsMulti(gf, name) == MultiTargets(gf, name) # <<>>

----------------------------------------------------------------------------
(* The file system and the external tools *)
RootFileNames == {"README.md", "LICENCE", "LICENSE", "package.json"}
OptionalRootFiles == {"README.md", "LICENCE", "LICENSE"}
StaleFiles == {<<"dist", "old.html">>, <<"dist", "default", "old.html">>}
SourceFiles == {<<"src", "default", "Gesture.ts">>, <<"src", "minimal", "README.md">>}

\* grunt's file globbing of one pattern against a file name of the root directory
GlobMatch(pattern, name) ==
    CASE pattern = "README.md" -> name = "README.md"
      [] pattern = "LICENCE*" -> name \in {"LICENCE", "LICENCE.txt", "LICENCE.md"}
      [] OTHER -> FALSE

\* the root files the copy target selects
CopySources(files) ==
    {n \in RootFileNames :
        /\ Cwd \o <<n>> \in files
        /\ \E i \in DOMAIN CopyConfig.src : GlobMatch(CopyConfig.src[i], n)}

\* grunt-contrib-copy: dest ends with '/', so each file goes to dest + its name
CopyDest(n) == PathResolve(PathConcat(CopyConfig.dest, n))

\* grunt-contrib-clean: removes the directory and all below it
CleanFs(files) == {f \in files : ~Inside(f, CleanConfig.dist)}

\* the files the documentation generator renders into its output directory
GenFiles(out) == {PathResolve(out) \o <<"index.html">>,
                  PathResolve(out) \o <<"assets", "main.css">>}

\* grunt-gh-pages: pushes the files below base matching '**/*', relative to base
GhPagesFiles(files) ==
    {SubSeq(f, Len(PathResolve(GhPagesConfig.base)) + 1, Len(f)) :
        f \in {g \in files : Inside(g, GhPagesConfig.base) /\ g # PathResolve(GhPagesConfig.base)}}

BuildInit ==
    /\ NoGestures
    /\ gruntfile \in Gruntfiles
    /\ cliTask \in AliasNames
    /\ queue = <<T(cliTask, "")>>
    /\ running = NoTask
    /\ themeIdx = 0
    /\ status = "running"
    /\ startedLog = <<>>
    /\ finishedLog = <<>>
    /\ failedTask = NoTask
    /\ invocations = <<>>
    /\ \E roots \in SUBSET OptionalRootFiles, stale \in SUBSET StaleFiles :
          fs = {PathResolve(f) : f \in SourceFiles \cup stale}
               \cup {Cwd \o <<n>> : n \in roots \cup {"package.json"}}
    /\ readDirs = <<>>
    /\ written = <<>>
    /\ published = {}
    /\ runs = 1
    /\ prevDist = {}

----------------------------------------------------------------------------
(* grunt's task runner *)
IsHandwrittenTypedoc(gf, t) == gf = "handwritten" /\ t.task = "typedoc"

OnGenerateError_swallowed(gf) == IF gf = "handwritten" THEN "continue" ELSE "abort"

\* what an error raised by a generator invocation does to the 'typedoc' task:
\* grunt-typedoc fails its target; in the hand-written task nothing catches the
\* exception, so it leaves the forEach loop and the task function
OnGenerateError(gf) == "abort"

\* an alias task is replaced, in place, by the tasks of its list
ExpandAlias ==
    /\ status = "running" /\ running = NoTask /\ queue # <<>>
    /\ Head(queue).task \in AliasNames
    /\ queue' = AliasTasks(Head(queue).task) \o Tail(queue)
    /\ UNCHANGED <<runs, prevDist, gruntfile, cliTask, running, themeIdx, status, startedLog, finishedLog,
                   failedTask, invocations, fs, readDirs, written, published>>

\* a multi task named without a target is replaced by one task per target
ExpandMulti ==
    /\ status = "running" /\ running = NoTask /\ queue # <<>>
    /\ Head(queue).target = "" /\ IsMulti(gruntfile, Head(queue).task)
    /\ LET name == Head(queue).task
           targets == MultiTargets(gruntfile, name)
       IN queue' = [i \in 1..Len(targets) |-> T(name, targets[i])] \o Tail(queue)
    /\ UNCHANGED <<runs, prevDist, gruntfile, cliTask, running, themeIdx, status, startedLog, finishedLog,
                   failedTask, invocations, fs, readDirs, written, published>>

\* the next task of the queue starts once the previous one has finished
StartTask ==
    /\ status = "running" /\ running = NoTask /\ queue # <<>>
    /\ Head(queue).task \notin AliasNames
    /\ Head(queue).target # "" \/ ~IsMulti(gruntfile, Head(queue).task)
    /\ running' = Head(queue)
    /\ queue' = Tail(queue)
    /\ startedLog' = Append(startedLog, Head(queue))
    /\ themeIdx' = IF IsHandwrittenTypedoc(gruntfile, Head(queue)) THEN 1 ELSE 0
    /\ UNCHANGED <<runs, prevDist, gruntfile, cliTask, status, finishedLog, failedTask, invocations,
                   fs, readDirs, written, published>>

Finish ==
    /\ running' = NoTask
    /\ finishedLog' = Append(finishedLog, running)

Abort ==
    /\ status' = "aborted"
    /\ running' = NoTask
    /\ queue' = <<>>

\* clean:dist
RunClean ==
    /\ status = "running" /\ running.task = "clean"
    /\ fs' = CleanFs(fs)
    /\ Finish
    /\ UNCHANGED <<runs, prevDist, gruntfile, cliTask, queue, themeIdx, status, startedLog, failedTask,
                   invocations, readDirs, written, published>>

\* copy:rootfiles
RunCopy ==
    /\ status = "running" /\ running.task = "copy"
    /\ fs' = fs \cup {CopyDest(n) : n \in CopySources(fs)}
    /\ Finish
    /\ UNCHANGED <<runs, prevDist, gruntfile, cliTask, queue, themeIdx, status, startedLog, failedTask,
                   invocations, readDirs, written, published>>

\* gh-pages:dist
RunGhPages ==
    /\ status = "running" /\ running.task = "gh-pages"
    /\ published' = GhPagesFiles(fs)
    /\ Finish
    /\ UNCHANGED <<runs, prevDist, gruntfile, cliTask, queue, themeIdx, status, startedLog, failedTask,
                   invocations, fs, readDirs, written>>

\* one successful run of the documentation generator
Generate(inv) ==
    /\ invocations' = Append(invocations, inv)
    /\ readDirs' = Append(readDirs, PathResolve(inv.src))
    /\ written' = Append(written, GenFiles(inv.out))
    /\ fs' = fs \cup GenFiles(inv.out)

\* one run of the documentation generator that ends in an error, leaving part of its output
GenerateError(inv) ==
    /\ invocations' = Append(invocations, inv)
    /\ readDirs' = Append(readDirs, PathResolve(inv.src))
    /\ \E part \in SUBSET GenFiles(inv.out) :
          /\ part # GenFiles(inv.out)
          /\ written' = Append(written, part)
          /\ fs' = fs \cup part

\* typedoc:default / typedoc:minimal of grunt-typedoc
RunTypedocTarget ==
    /\ status = "running" /\ gruntfile = "plugin" /\ running.task = "typedoc"
    /\ Generate(Invocation(gruntfile, running.target))
    /\ Finish
    /\ UNCHANGED <<runs, prevDist, gruntfile, cliTask, queue, themeIdx, status, startedLog, failedTask,
                   published>>

\* one iteration of the forEach of the hand-written 'typedoc' task
GenerateStep ==
    /\ status = "running" /\ IsHandwrittenTypedoc(gruntfile, running)
    /\ themeIdx \in DOMAIN Themes
    /\ Generate(Invocation(gruntfile, Themes[themeIdx]))
    /\ themeIdx' = themeIdx + 1
    /\ UNCHANGED <<runs, prevDist, gruntfile, cliTask, queue, running, status, startedLog, finishedLog,
                   failedTask, published>>

\* the hand-written 'typedoc' task returns after the loop
EndTypedocTask ==
    /\ status = "running" /\ IsHandwrittenTypedoc(gruntfile, running)
    /\ themeIdx > Len(Themes)
    /\ themeIdx' = 0
    /\ Finish
    /\ UNCHANGED <<runs, prevDist, gruntfile, cliTask, queue, status, startedLog, failedTask, invocations,
                   fs, readDirs, written, published>>

\* clean, copy or gh-pages fails: grunt stops
TaskFails ==
    /\ status = "running" /\ running.task \in {"clean", "copy", "gh-pages"}
    /\ failedTask' = running
    /\ Abort
    /\ UNCHANGED <<runs, prevDist, gruntfile, cliTask, themeIdx, startedLog, finishedLog, invocations,
                   fs, readDirs, written, published>>

\* a generator invocation fails
GenerateFails ==
    /\ status = "running" /\ running.task = "typedoc"
    /\ gruntfile = "handwritten" => themeIdx \in DOMAIN Themes
    /\ LET theme == IF gruntfile = "plugin" THEN running.target ELSE Themes[themeIdx]
       IN GenerateError(Invocation(gruntfile, theme))
    /\ failedTask' = running
    /\ IF OnGenerateError(gruntfile) = "abort"
       THEN Abort /\ UNCHANGED themeIdx
       ELSE themeIdx' = themeIdx + 1 /\ UNCHANGED <<queue, running, status>>
    /\ UNCHANGED <<runs, prevDist, gruntfile, cliTask, startedLog, finishedLog, published>>

\* the queue is empty: grunt reports success
Done ==
    /\ status = "running" /\ running = NoTask /\ queue = <<>>
    /\ status' = "done"
    /\ UNCHANGED <<runs, prevDist, gruntfile, cliTask, queue, running, themeIdx, startedLog, finishedLog,
                   failedTask, invocations, fs, readDirs, written, published>>

\* the content of dist/
DistFiles(files) == {f \in files : Inside(f, GhPagesConfig.base)}

\* grunt is run again in the same working directory, on what the last run left
RunAgain ==
    /\ status \in {"done", "aborted"}
    /\ runs < MaxRuns
    /\ runs' = runs + 1
    /\ prevDist' = IF status = "done" THEN DistFiles(fs) ELSE prevDist
    /\ cliTask' \in AliasNames
    /\ queue' = <<T(cliTask', "")>>
    /\ running' = NoTask
    /\ themeIdx' = 0
    /\ status' = "running"
    /\ startedLog' = <<>>
    /\ finishedLog' = <<>>
    /\ failedTask' = NoTask
    /\ invocations' = <<>>
    /\ readDirs' = <<>>
    /\ written' = <<>>
    /\ published' = {}
    /\ UNCHANGED <<gruntfile, fs>>

----------------------------------------------------------------------------
(* Specifications *)
\* the value objects; the build is not running
GestureInit ==
    /\ NoGestures
    /\ gruntfile = "plugin" /\ cliTask = "default" /\ queue = <<>> /\ running = NoTask
    /\ themeIdx = 0 /\ status = "done" /\ startedLog = <<>> /\ finishedLog = <<>>
    /\ failedTask = NoTask /\ invocations = <<>> /\ fs = {} /\ readDirs = <<>>
    /\ written = <<>> /\ published = {}
    /\ runs = 1 /\ prevDist = {}

GestureNext ==
    \/ NewGesture /\ UNCHANGED bvars
    \/ NewSwipeGesture /\ UNCHANGED bvars
    \/ WriteField /\ UNCHANGED bvars
    \/ CallIsEqualTo /\ UNCHANGED bvars
    \/ CallIsValid /\ UNCHANGED bvars
    \/ CallToString /\ UNCHANGED bvars
    \/ CallInvalid /\ UNCHANGED bvars

SpecGesture == GestureInit /\ [][GestureNext]_vars

BuildNext ==
    \/ ExpandAlias /\ UNCHANGED gvars
    \/ ExpandMulti /\ UNCHANGED gvars
    \/ StartTask /\ UNCHANGED gvars
    \/ RunClean /\ UNCHANGED gvars
    \/ RunCopy /\ UNCHANGED gvars
    \/ RunGhPages /\ UNCHANGED gvars
    \/ RunTypedocTarget /\ UNCHANGED gvars
    \/ GenerateStep /\ UNCHANGED gvars
    \/ EndTypedocTask /\ UNCHANGED gvars
    \/ TaskFails /\ UNCHANGED gvars
    \/ GenerateFails /\ UNCHANGED gvars
    \/ Done /\ UNCHANGED gvars
    \/ RunAgain /\ UNCHANGED gvars

SpecBuild == BuildInit /\ [][BuildNext]_vars

----------------------------------------------------------------------------
(* Properties of the value objects (SpecGesture) *)

C2_IsValidIffDurationPopulated ==
    lastOp.name = "isValid" =>
        ret = Bool(heap[lastOp.a].duration # Undef)

\* C3: every call to Gesture.invalid() returns the same object.
C3_InvalidIsOneSharedInstance == Cardinality(invalidRefs) <= 1

\* C4: whatever was called or written before, the object Gesture.invalid() has
\* just returned exists, is a Gesture, has no duration and reports isValid() false.
C4_InvalidReturnsInvalidGesture ==
    lastOp.name = "invalid" =>
        /\ ret.k = "object" /\ ret.n \in DOMAIN heap
        /\ heap[ret.n].cls = "Gesture"
        /\ heap[ret.n].duration = Undef /\ heap[ret.n].durationSeconds = Undef
        /\ isValid(heap[ret.n]) = FALSE

\* Gesture.invalid() has just returned, after an instance it returned earlier
\* was written to and made valid
C4_Witness ==
    /\ lastOp.name = "invalid"
    /\ \E r \in invalidRefs : r # ret.n /\ isValid(heap[r])

ReadOps == {"isEqualTo", "isValid", "toString", "invalid"}

\* C5: a step that is a call of isEqualTo, isValid, toString or Gesture.invalid()
\* leaves every field of every existing instance as it was.
C5_NoOperationMutates ==
    [][lastOp'.name \in ReadOps =>
          \A r \in DOMAIN heap : r \in DOMAIN heap' /\ heap'[r] = heap[r]]_vars

\* each of the four operations has run on a heap holding a populated instance
C5_Witness ==
    /\ lastOp.name \in ReadOps
    /\ \E r \in DOMAIN heap : heap[r].id # Undef /\ heap[r].durationSeconds # Undef
    /\ invalidRefs # {}

\* C11: comparing a gesture g with an instance returned by Gesture.invalid()
\* (and left untouched since) tells whether g is invalid:
\* g.isEqualTo(Gesture.invalid()) is true iff g.isValid() is false.
C11_EqualToInvalidIffNotValid ==
    (/\ lastOp.name = "isEqualTo"
     /\ lastOp.b \in invalidRefs
     /\ heap[lastOp.b] = GestureCtor) =>
        ret = Bool(~isValid(heap[lastOp.a]))

\* C12: every instance has a state of enum State and a type of enum Type; an
\* instance that is not valid has STATE_INVALID and TYPE_INVALID, and a
\* SwipeGesture has the type SwipeGesture.classType.
C12_StateAndTypeAreEnumMembers ==
    \A r \in DOMAIN heap :
        /\ heap[r].state \in {Num(st) : st \in State}
        /\ heap[r].type \in {Num(ty) : ty \in Type}
        /\ ~isValid(heap[r]) =>
              heap[r].state = Num(STATE_INVALID) /\ heap[r].type = Num(TYPE_INVALID)
        /\ heap[r].cls = "SwipeGesture" => heap[r].type = Num(classType)

----------------------------------------------------------------------------
(* Properties of the build pipeline (SpecBuild) *)

RECURSIVE Collapse(_)
\* a sequence without its consecutive repetitions
Collapse(q) ==
    IF Len(q) <= 1 THEN q
    ELSE IF q[1] = q[2] THEN Collapse(Tail(q))
    ELSE <<q[1]>> \o Collapse(Tail(q))

StagesOf(log) == Collapse([i \in DOMAIN log |-> log[i].task])

ExpectedStages(task) ==
    IF task = "publish" THEN <<"clean", "typedoc", "copy", "gh-pages">>
    ELSE <<"clean", "typedoc", "copy">>

NoDuplicates(q) == \A i \in DOMAIN q, j \in DOMAIN q : q[i] = q[j] => i = j

\* C6: the stages start in the order clean, typedoc, copy (then gh-pages for
\* publish, and only for publish), each once, each only after the one before it
\* has finished; a run that completes has run all of them.
C6_StagesStrictlySequential ==
    /\ IsPrefix(StagesOf(startedLog), ExpectedStages(cliTask))
    /\ status = "done" => StagesOf(startedLog) = ExpectedStages(cliTask)
    /\ NoDuplicates(startedLog)
    /\ IsPrefix(finishedLog, startedLog)
    /\ Len(startedLog) - Len(finishedLog) \in {0, 1}
    /\ Len(startedLog) - Len(finishedLog) = 1 =>
          running = startedLog[Len(startedLog)] \/ status = "aborted"
    /\ invocations # <<>> => T("clean", "dist") \in {finishedLog[i] : i \in DOMAIN finishedLog}
    /\ T("copy", "rootfiles") \in {startedLog[i] : i \in DOMAIN startedLog} =>
          Len(invocations) = 2

\* a publish run has completed
C6_Witness ==
    /\ status = "done" /\ cliTask = "publish"
    /\ Len(finishedLog) >= 4 /\ published # {}

FailedInvocations == {i \in DOMAIN invocations : written[i] # GenFiles(invocations[i].out)}

C8_OutputTreesDisjoint ==
    /\ \A i \in DOMAIN invocations, j \in DOMAIN invocations :
          i # j =>
             /\ \A f \in written[i] : ~Inside(f, invocations[j].out)
             /\ ~Inside(invocations[i].out, invocations[j].out)
             /\ ~Inside(readDirs[i], invocations[j].src)
             /\ ~Inside(invocations[j].src, readDirs[i])
    /\ status = "done" =>
          /\ Len(invocations) = 2
          /\ PathResolve(invocations[1].out) = <<"/", "repo", "dist", "default">>
          /\ PathResolve(invocations[2].out) = <<"/", "repo", "dist", "minimal">>
          /\ written[1] # {} /\ written[2] # {}

C8_Witness ==
    /\ status = "done" /\ Len(invocations) = 2
    /\ written[1] \cup written[2] \subseteq fs

CopiedNames == {"README.md", "LICENCE"}

\* C9 as stated: after a successful build every root readme and licence file is
\* present inside dist/default and inside dist/minimal.
C9_RootFilesInsideEachTree ==
    status = "done" =>
        \A n \in CopiedNames :
            Cwd \o <<n>> \in fs =>
                /\ Cwd \o <<"dist", "default", n>> \in fs
                /\ Cwd \o <<"dist", "minimal", n>> \in fs

\* C9 amended: after a successful build every root file named README.md or
\* LICENCE* is present directly in dist/, beside the two output trees and in
\* neither of them; no other root file is copied.
C9_RootFilesInDistRoot ==
    status = "done" =>
        /\ \A n \in CopiedNames :
              Cwd \o <<n>> \in fs =>
                 /\ Cwd \o <<"dist", n>> \in fs
                 /\ Cwd \o <<"dist", "default", n>> \notin fs
                 /\ Cwd \o <<"dist", "minimal", n>> \notin fs
        /\ \A n \in RootFileNames :
              Cwd \o <<"dist", n>> \in fs => n \in CopiedNames /\ Cwd \o <<n>> \in fs

C9_Witness ==
    /\ status = "done"
    /\ Cwd \o <<"README.md">> \in fs /\ Cwd \o <<"LICENCE">> \in fs
    /\ Cwd \o <<"LICENSE">> \in fs
    /\ Cwd \o <<"dist", "README.md">> \in fs /\ Cwd \o <<"dist", "LICENCE">> \in fs

ExpectedName(theme) == IF theme = "default" THEN "Leap Motion" ELSE "FS Extra"

\* the parameters on which the two configurations agree
CommonParameters(inv, theme) ==
    /\ PathResolve(inv.src) = <<"/", "repo", "src", theme>>
    /\ PathResolve(inv.out) = <<"/", "repo", "dist", theme>>
    /\ inv.name = ExpectedName(theme)
    /\ ScriptTarget(inv.target) = ScriptTarget("es5")
    /\ inv.theme = theme

\* C10 as stated: one build issues two invocations, for default and then
\* minimal, each with source, output, name, module commonjs, target es5, theme.
C10_SixParametersInBoth ==
    status = "done" =>
        /\ Len(invocations) = 2
        /\ \A i \in 1..2 :
              /\ CommonParameters(invocations[i], Themes[i])
              /\ invocations[i].module = "commonjs"

\* C10 amended: one build issues two invocations, for default and then minimal;
\* in both configurations they carry the same source and output directory (the
\* hand-written task as absolute paths), name, target es5 and theme; the module
\* format commonjs is passed by the grunt-typedoc configuration only, the
\* hand-written task leaves it unset and sets the mode File instead.
C10_FiveParametersInBoth ==
    status = "done" =>
        /\ Len(invocations) = 2
        /\ \A i \in 1..2 :
              /\ CommonParameters(invocations[i], Themes[i])
              /\ gruntfile = "plugin" =>
                    invocations[i].module = "commonjs" /\ invocations[i].mode = Unset
              /\ gruntfile = "handwritten" =>
                    invocations[i].module = Unset /\ invocations[i].mode = "File"

C10_Witness ==
    /\ status = "done" /\ gruntfile = "handwritten"
    /\ Len(invocations) = 2 /\ invocations[2].name = "FS Extra"

\* the files below dist/, relative to dist/
RelativeToDist(files) == {SubSeq(f, Len(Cwd) + 2, Len(f)) : f \in files}

\* what this run's copy stage put into dist/
CopiedThisRun == {Cwd \o <<"dist", n>> : n \in {m \in CopiedNames : Cwd \o <<m>> \in fs}}

\* C13: whatever dist/ held before the run (stale files, the output of earlier
\* successful or aborted runs), after a successful build dist/ holds exactly
\* the files this run's two generator invocations wrote and its copy stage
\* copied; it equals dist/ as the last earlier successful build left it, and
\* publish pushes exactly these files.
C13_PriorOutputNeverSurvives ==
    status = "done" =>
        /\ Len(written) = 2
        /\ DistFiles(fs) = written[1] \cup written[2] \cup CopiedThisRun
        /\ prevDist # {} => DistFiles(fs) = prevDist
        /\ cliTask = "publish" => published = RelativeToDist(DistFiles(fs))

\* a second run, a publish, has completed after an earlier successful build
\* that had started from a dist/ holding stale files
C13_Witness ==
    /\ status = "done" /\ runs = 2 /\ cliTask = "publish"
    /\ prevDist # {} /\ published # {}
    /\ Cwd \o <<"dist", "old.html">> \notin fs

====
